---- MODULE Spec2Model ----
(***************************************************************************)
(* A model of src/app.py: the Streamlit page script of the MySQL query     *)
(* assistant.  One behaviour is a sequence of renders (Streamlit reruns    *)
(* the whole script on every interaction).  Each render walks the script   *)
(* top to bottom: schema fetch (connect, SHOW TABLES, SHOW COLUMNS per     *)
(* table, close), sidebar, text input, and for a non-empty question the    *)
(* try block (setup_agent, agent.run, st.success, st.write) with its       *)
(* except handler.                                                         *)
(*                                                                         *)
(* The MySQL server, the agent framework and the LLM are the environment:  *)
(* every call into them either returns a value or raises an Exception,     *)
(* chosen nondeterministically.  Strings that the code formats and the     *)
(* server parses again (table names) are sequences of characters.          *)
(***************************************************************************)
EXTENDS Naturals, Sequences, FiniteSets

VARIABLES
    pc,           \* position of the running render in the script
    renders,      \* number of renders started so far
    ui,           \* the elements this render has displayed, in order
    raised,       \* the exception that left the page script ("" = none)
    exc,          \* the exception raised last in this render, and by which call
    conn,         \* get_table_schema's local conn: a handle id, None = 0
    cursor,       \* "none" | "open" | "closed"
    db,           \* the database the connection points at: table -> columns
    tables,       \* rows fetched by SHOW TABLES, in the server's order
    idx,          \* position of the for loop over tables
    schema,       \* the dict built by get_table_schema
    user_query,   \* value returned by st.text_input
    agent,        \* the agent local of the try block: an agent id, 0 = unset
    response,     \* value returned by agent.run
    calls,        \* calls made by this render: connect, setup, run
    opened,       \* connections opened since the process started
    openConns,    \* handles on which close() has not been called
    agentsBuilt,  \* agents constructed since the process started
    runLog,       \* every agent.run since the process started: <<agent, question>>
    submitted     \* non-empty questions received since the process started

vars == <<pc, renders, ui, raised, exc, conn, cursor, db, tables, idx, schema,
          user_query, agent, response, calls, opened, openConns, agentsBuilt,
          runLog, submitted>>

----------------------------------------------------------------------------
(* Bounds of the model *)

MaxRenders == 2
MaxTables == 2

----------------------------------------------------------------------------
(* The environment's values *)

None == 0

\* The backtick character (written by name: the character itself cannot
\* stand in a string here).
BQ == "backtick"

\* Table names the server may hold.  MySQL allows a backtick inside an
\* identifier, so two of the names have one.
TableNames == { <<"t", "1">>, <<"t", "2">>, <<"t", BQ>>, <<BQ, BQ>> }

\* Column lists, in the server's native order.
ColumnLists == { <<"a", "b">>, <<"b", "a">>, <<"c">> }

\* Texts of the exceptions the environment raises.
Messages == { "boom", "denied" }

\* What st.text_input returns.
Questions == { "", "q" }

\* What agent.run returns: Chain.run is typed Any, so besides a string
\* it may hand back an object.
StrResponses == { [type |-> "str", val |-> "42"], [type |-> "str", val |-> ""] }
ObjResponses == { [type |-> "obj", val |-> "o"] }
Responses == StrResponses \cup ObjResponses

Range(s) == { s[i] : i \in DOMAIN s }

InjSeqs(S, n) ==
    { s \in UNION { [1..k -> S] : k \in 0..n } :
        \A i, j \in DOMAIN s : i # j => s[i] # s[j] }

EmptyDict == [n \in {} |-> <<>>]

----------------------------------------------------------------------------
(* UI elements *)

Element(panel, kind, body) == [panel |-> panel, kind |-> kind, body |-> body]

Header ==
    << Element("main", "title", <<"MySQL Query Assistant using Groq + LangChain">>),
       Element("sidebar", "title", <<"Database Schema">>) >>

\* st.error(f"Database connection failed: {e}")
ConnErrorPrefix == "Database connection failed: "
\* st.error(f"<cross> Error: {e}")
QueryErrorPrefix == "Error: "

Shown(kind, panel) == { i \in DOMAIN ui : ui[i].kind = kind /\ ui[i].panel = panel }

QueryErrors == { i \in Shown("error", "main") : ui[i].body[1] = QueryErrorPrefix }
ConnErrors == { i \in Shown("error", "main") : ui[i].body[1] = ConnErrorPrefix }
Successes == Shown("success", "main")
Answers == Shown("write", "main")

----------------------------------------------------------------------------
(* Init: the script has run lines 1-16 and 87 of the first render *)

NoDatabase == [rows |-> <<>>, cols |-> EmptyDict]
NoResponse == [type |-> "none", val |-> ""]
NoCalls == [connect |-> 0, setup |-> 0, run |-> 0]
NoException == [at |-> "", text |-> ""]
Raise(at, e) == [at |-> at, text |-> e]

Locals ==
    /\ pc = "connect"
    /\ ui = Header
    /\ raised = ""
    /\ exc = NoException
    /\ conn = None
    /\ cursor = "none"
    /\ db = NoDatabase
    /\ tables = <<>>
    /\ idx = 1
    /\ schema = EmptyDict
    /\ user_query = ""
    /\ agent = 0
    /\ response = NoResponse
    /\ calls = NoCalls

Init ==
    /\ Locals
    /\ renders = 1
    /\ opened = 0
    /\ openConns = {}
    /\ agentsBuilt = 0
    /\ runLog = <<>>
    /\ submitted = 0

\* Streamlit runs the script again from the top: the script's variables
\* start afresh, what the process holds outside the script stays.
Rerun ==
    /\ pc \in {"done", "crashed"}
    /\ renders < MaxRenders
    /\ renders' = renders + 1
    /\ pc' = "connect"
    /\ ui' = Header
    /\ raised' = ""
    /\ exc' = NoException
    /\ conn' = None
    /\ cursor' = "none"
    /\ db' = NoDatabase
    /\ tables' = <<>>
    /\ idx' = 1
    /\ schema' = EmptyDict
    /\ user_query' = ""
    /\ agent' = 0
    /\ response' = NoResponse
    /\ calls' = NoCalls
    /\ UNCHANGED <<opened, openConns, agentsBuilt, runLog, submitted>>

----------------------------------------------------------------------------
(* An exception leaving the page script: Streamlit shows it and the render *)
(* ends there.                                                             *)

Propagate(e) ==
    /\ pc' = "crashed"
    /\ raised' = e
    /\ ui' = Append(ui, Element("main", "exception", <<e>>))

----------------------------------------------------------------------------
(* connect_to_mysql, as called by get_table_schema *)

\* return connection
ConnectOk(d) ==
    /\ opened' = opened + 1
    /\ conn' = opened + 1
    /\ openConns' = openConns \cup {opened + 1}
    /\ db' = d
    /\ pc' = "show_tables"
    /\ UNCHANGED <<ui, raised, schema>>

\* connect_to_mysql without its try/except: the exception reaches the caller.
ConnectFailed_raise(e) ==
    /\ Propagate(e)
    /\ conn' = None
    /\ UNCHANGED <<opened, openConns, db, schema>>

\* connect_to_mysql ending the render after reporting the error (st.stop()).
ConnectFailed_stop(e) ==
    /\ ui' = Append(ui, Element("main", "error", <<ConnErrorPrefix, e>>))
    /\ conn' = None
    /\ pc' = "done"
    /\ UNCHANGED <<opened, openConns, db, raised, schema>>

\* except Exception as e: st.error(...); return None.  The caller's
\* "if conn:" then skips the queries and get_table_schema returns {}.
ConnectFailed(e) ==
    /\ ui' = Append(ui, Element("main", "error", <<ConnErrorPrefix, e>>))
    /\ conn' = None
    /\ pc' = "sidebar"
    /\ UNCHANGED <<opened, openConns, db, raised, schema>>

connect_to_mysql ==
    /\ pc = "connect"
    /\ calls' = [calls EXCEPT !.connect = @ + 1]
    /\ \/ /\ \E ts \in InjSeqs(TableNames, MaxTables) :
                \E cs \in [Range(ts) -> ColumnLists] :
                    ConnectOk([rows |-> ts, cols |-> cs])
          /\ UNCHANGED exc
       \/ \E e \in Messages : ConnectFailed(e) /\ exc' = Raise("connect", e)
    /\ UNCHANGED <<renders, cursor, tables, idx, user_query, agent, response,
                   agentsBuilt, runLog, submitted>>

----------------------------------------------------------------------------
(* The queries of get_table_schema *)

\* cursor = conn.cursor(); cursor.execute("SHOW TABLES;"); cursor.fetchall()
ShowTables ==
    /\ pc = "show_tables"
    /\ cursor' = "open"
    /\ \/ /\ tables' = [i \in DOMAIN db.rows |-> <<db.rows[i]>>]
          /\ idx' = 1
          /\ pc' = "show_columns"
          /\ UNCHANGED <<ui, raised, exc>>
       \/ /\ \E e \in Messages : Propagate(e) /\ exc' = Raise("show_tables", e)
          /\ UNCHANGED <<tables, idx>>
    /\ UNCHANGED <<renders, conn, db, schema, user_query, agent, response, calls,
                   opened, openConns, agentsBuilt, runLog, submitted>>

\* f"SHOW COLUMNS FROM `{table_name}`;": the name between two backticks,
\* nothing escaped.
QuoteIdent(name) == <<BQ>> \o name \o <<BQ>>

\* The server reading a quoted identifier: it ends at the first backtick
\* that is not doubled, a doubled backtick stands for one, and the
\* statement's ";" has to follow.
RECURSIVE ScanIdent(_, _, _)
ScanIdent(s, i, acc) ==
    IF i > Len(s) THEN [ok |-> FALSE, name |-> <<>>]
    ELSE IF s[i] # BQ THEN ScanIdent(s, i + 1, Append(acc, s[i]))
    ELSE IF i + 1 <= Len(s) /\ s[i + 1] = BQ THEN ScanIdent(s, i + 2, Append(acc, BQ))
    ELSE IF i = Len(s) /\ acc # <<>> THEN [ok |-> TRUE, name |-> acc]
    ELSE [ok |-> FALSE, name |-> <<>>]

ParseIdent(s) ==
    IF s = <<>> \/ s[1] # BQ THEN [ok |-> FALSE, name |-> <<>>] ELSE ScanIdent(s, 2, <<>>)

SyntaxError == "1064 syntax error"
NoSuchTable == "1146 table does not exist"

\* What the server answers to the SHOW COLUMNS statement built for name.
ShowColumnsAnswer(name) ==
    LET p == ParseIdent(QuoteIdent(name)) IN
    IF ~p.ok THEN [err |-> SyntaxError, rows |-> <<>>]
    ELSE IF p.name \notin DOMAIN db.cols THEN [err |-> NoSuchTable, rows |-> <<>>]
    ELSE [err |-> "",
          rows |-> [i \in DOMAIN db.cols[p.name] |-> <<db.cols[p.name][i], "int">>]]

\* schema[table_name] = columns
Store(d, k, v) == [n \in DOMAIN d \cup {k} |-> IF n = k THEN v ELSE d[n]]

\* columns = [col[0] for col in cursor.fetchall()]
FirstFields(rows) == [i \in DOMAIN rows |-> rows[i][1]]

\* One turn of the for loop.
ShowColumns ==
    /\ pc = "show_columns"
    /\ idx <= Len(tables)
    /\ LET table_name == tables[idx][1]
           a == ShowColumnsAnswer(table_name) IN
       \/ /\ a.err = ""
          /\ schema' = Store(schema, table_name, FirstFields(a.rows))
          /\ idx' = idx + 1
          /\ UNCHANGED <<pc, ui, raised, exc>>
       \/ /\ a.err # ""
          /\ Propagate(a.err)
          /\ exc' = Raise("show_columns", a.err)
          /\ UNCHANGED <<schema, idx>>
       \/ /\ \E e \in Messages : Propagate(e) /\ exc' = Raise("show_columns", e)
          /\ UNCHANGED <<schema, idx>>
    /\ UNCHANGED <<renders, conn, cursor, db, tables, user_query, agent, response,
                   calls, opened, openConns, agentsBuilt, runLog, submitted>>

\* cursor.close(); conn.close(); return schema
CloseAll ==
    /\ pc = "show_columns"
    /\ idx > Len(tables)
    /\ cursor' = "closed"
    /\ openConns' = openConns \ {conn}
    /\ pc' = "sidebar"
    /\ UNCHANGED <<renders, exc, ui, raised, conn, db, tables, idx, schema, user_query,
                   agent, response, calls, opened, agentsBuilt, runLog, submitted>>

----------------------------------------------------------------------------
(* Sidebar and question input *)

NoSchemaWarning == "No schema data found"

\* The sidebar without the emptiness test: an empty dict is written as it is.
SidebarElement_nocheck(s) == Element("sidebar", "write", s)

\* if schema: st.sidebar.write(schema) else: st.sidebar.warning(...)
SidebarElement(s) ==
    IF DOMAIN s # {}
    THEN Element("sidebar", "write", s)
    ELSE Element("sidebar", "warning", <<NoSchemaWarning>>)

Sidebar ==
    /\ pc = "sidebar"
    /\ ui' = Append(ui, SidebarElement(schema))
    /\ pc' = "input"
    /\ UNCHANGED <<renders, exc, raised, conn, cursor, db, tables, idx, schema,
                   user_query, agent, response, calls, opened, openConns,
                   agentsBuilt, runLog, submitted>>

\* The test "if user_query is not None:", which an empty string passes.
QueryBranch_always(q) == "setup"

\* if user_query:
QueryBranch(q) == IF q # "" THEN "setup" ELSE "done"

\* user_query = st.text_input(...)
TextInput ==
    /\ pc = "input"
    /\ \E q \in Questions :
        /\ user_query' = q
        /\ pc' = QueryBranch(q)
        /\ submitted' = IF q # "" THEN submitted + 1 ELSE submitted
    /\ ui' = Append(ui, Element("main", "input",
                                <<"Ask a question related to your database:">>))
    /\ UNCHANGED <<renders, exc, raised, conn, cursor, db, tables, idx, schema, agent,
                   response, calls, opened, openConns, agentsBuilt, runLog>>

----------------------------------------------------------------------------
(* The try block and its handler *)

\* The try block without its handler: the exception leaves the script.
ExceptHandler_reraise(e) == Propagate(e)

\* except Exception as e: st.error(f"<cross> Error: {e}")
ExceptHandler(e) ==
    /\ ui' = Append(ui, Element("main", "error", <<QueryErrorPrefix, e>>))
    /\ pc' = "done"
    /\ UNCHANGED raised

\* setup_agent behind a cache: the agent built first is handed out again.
NewAgent_cached == IF agentsBuilt > 0 THEN agentsBuilt ELSE 1

\* initialize_agent(...) builds a new object on every call.
NewAgent == agentsBuilt + 1

\* agent = setup_agent(): get_langchain_db, ChatGroq, SQLDatabaseToolkit and
\* initialize_agent, any of which may raise.
setup_agent ==
    /\ pc = "setup"
    /\ calls' = [calls EXCEPT !.setup = @ + 1]
    /\ \/ /\ agent' = NewAgent
          /\ agentsBuilt' = agentsBuilt + 1
          /\ pc' = "run"
          /\ UNCHANGED <<ui, raised, exc>>
       \/ /\ \E e \in Messages : ExceptHandler(e) /\ exc' = Raise("setup", e)
          /\ UNCHANGED <<agent, agentsBuilt>>
    /\ UNCHANGED <<renders, conn, cursor, db, tables, idx, schema, user_query,
                   response, opened, openConns, runLog, submitted>>

\* response = agent.run(user_query)
agent_run ==
    /\ pc = "run"
    /\ calls' = [calls EXCEPT !.run = @ + 1]
    /\ runLog' = Append(runLog, <<agent, user_query>>)
    /\ \/ /\ \E r \in Responses : response' = r
          /\ pc' = "success"
          /\ UNCHANGED <<ui, raised, exc>>
       \/ /\ \E e \in Messages : ExceptHandler(e) /\ exc' = Raise("run", e)
          /\ UNCHANGED response
    /\ UNCHANGED <<renders, conn, cursor, db, tables, idx, schema, user_query,
                   agent, opened, openConns, agentsBuilt, submitted>>

\* st.success(...)
ShowSuccess ==
    /\ pc = "success"
    /\ ui' = Append(ui, Element("main", "success", <<"Query executed successfully!">>))
    /\ pc' = "write"
    /\ UNCHANGED <<renders, exc, raised, conn, cursor, db, tables, idx, schema,
                   user_query, agent, response, calls, opened, openConns,
                   agentsBuilt, runLog, submitted>>

\* st.write(f"Answer: {response}")
Written_labelled(r) == Element("main", "write", <<"Answer: ", r.val>>)

\* What st.write puts on the page for r.
Written(r) == Element("main", "write", r.val)

\* st.write(response): a string is shown as it is; showing an object
\* formats it first, which may raise.
WriteResponse ==
    /\ pc = "write"
    /\ \/ /\ ui' = Append(ui, Written(response))
          /\ pc' = "done"
          /\ UNCHANGED <<raised, exc>>
       \/ /\ response.type = "obj"
          /\ \E e \in Messages : ExceptHandler(e) /\ exc' = Raise("write", e)
    /\ UNCHANGED <<renders, conn, cursor, db, tables, idx, schema, user_query,
                   agent, response, calls, opened, openConns, agentsBuilt,
                   runLog, submitted>>

----------------------------------------------------------------------------

Next ==
    \/ connect_to_mysql
    \/ ShowTables
    \/ ShowColumns
    \/ CloseAll
    \/ Sidebar
    \/ TextInput
    \/ setup_agent
    \/ agent_run
    \/ ShowSuccess
    \/ WriteResponse
    \/ Rerun

Spec == Init /\ [][Next]_vars

----------------------------------------------------------------------------
(* Positions of the script *)

InFetch == pc \in {"connect", "show_tables", "show_columns"}
AfterSidebar == pc \in {"input", "setup", "run", "success", "write", "done"}
AfterInput == pc \in {"setup", "run", "success", "write", "done"}
ConnFailed == calls.connect > 0 /\ conn = None
Finished == pc = "done" /\ user_query # ""

SidebarWrites == Shown("write", "sidebar")
SidebarWarnings == Shown("warning", "sidebar")
Inputs == Shown("input", "main")

----------------------------------------------------------------------------
(* The claims *)

\* C1: an exception raised by setup_agent or by agent.run is caught inside
\* the render: the render ends normally, the last element shown is the
\* query error carrying the exception's text, and nothing leaves the script.
C1_AgentErrorsCaught ==
    exc.at \in {"setup", "run"} =>
        /\ pc = "done"
        /\ user_query # ""
        /\ raised = ""
        /\ Shown("exception", "main") = {}
        /\ ui[Len(ui)] = Element("main", "error", <<QueryErrorPrefix, exc.text>>)
        /\ Cardinality(QueryErrors) = 1

C1_Witness == exc = Raise("run", "boom") /\ pc = "done" /\ user_query = "q"

\* C2: when the connection cannot be made, connect_to_mysql hands back None
\* and get_table_schema hands back an empty dict; no query is issued and no
\* exception reaches the caller.
C2_FailedConnectIsAbsent ==
    ConnFailed =>
        /\ conn = None
        /\ DOMAIN schema = {}
        /\ cursor = "none"
        /\ ~InFetch
        /\ pc # "crashed"
        /\ raised = ""

C2_Witness == pc = "sidebar" /\ ConnFailed /\ exc = Raise("connect", "denied")

\* C3: when the agent returned a string s, the render ends with the success
\* indicator followed by s itself, each shown once, and no query error.
C3_AnswerShownExactly ==
    (pc = "done" /\ response.type = "str") =>
        /\ Len(ui) >= 2
        /\ ui[Len(ui) - 1].kind = "success"
        /\ ui[Len(ui)] = Element("main", "write", response.val)
        /\ Cardinality(Successes) = 1
        /\ Cardinality(Answers) = 1
        /\ QueryErrors = {}

C3_Witness == pc = "done" /\ response = [type |-> "str", val |-> "42"]

\* C4: a render whose question is empty builds no agent, runs no agent and
\* shows neither a success nor a query error; over any number of renders
\* the agents built and the runs made never exceed the non-empty questions.
C4_EmptyQuestionNoAgent ==
    /\ (pc = "done" /\ user_query = "") =>
          /\ calls.setup = 0
          /\ calls.run = 0
          /\ agent = 0
          /\ Successes = {}
          /\ Answers = {}
          /\ QueryErrors = {}
    /\ agentsBuilt <= submitted
    /\ Len(runLog) <= submitted

C4_Witness ==
    pc = "done" /\ user_query = "" /\ renders = 2 /\ submitted = 0 /\ agentsBuilt = 0

\* C5: outside a running schema fetch no connection opened by a fetch is
\* open: every fetch has closed its connection when it ends, by return or
\* by exception, and so before any later render or agent call.
C5_ConnectionsClosed == ~(pc \in {"show_tables", "show_columns"}) => openConns = {}

\* C6: once a schema fetch on a live connection has ended without the
\* server or the network failing, it has returned the database's tables,
\* each with its columns in the server's order.
C6_SchemaIsDatabase ==
    (/\ ~InFetch
     /\ conn # None
     /\ ~(exc.at \in {"show_tables", "show_columns"} /\ exc.text \in Messages)) =>
        /\ pc # "crashed"
        /\ DOMAIN schema = Range(db.rows)
        /\ \A t \in DOMAIN schema : schema[t] = db.cols[t]

\* C7: past the sidebar, an empty schema (failed connection or no tables)
\* has put exactly the warning in the sidebar and a non-empty one exactly
\* the mapping; the sidebar shows no error and the render has not crashed.
C7_SidebarWarningIffEmpty ==
    AfterSidebar =>
        /\ raised = ""
        /\ Shown("error", "sidebar") = {}
        /\ DOMAIN schema = {} =>
              /\ SidebarWrites = {}
              /\ Cardinality(SidebarWarnings) = 1
              /\ \A i \in SidebarWarnings : ui[i].body = <<NoSchemaWarning>>
        /\ DOMAIN schema # {} =>
              /\ SidebarWarnings = {}
              /\ Cardinality(SidebarWrites) = 1
              /\ \A i \in SidebarWrites : ui[i].body = schema

C7_Witness == pc = "input" /\ conn # None /\ DOMAIN schema = {}

\* C8: a render calls connect, setup_agent and agent.run at most once each;
\* one that ends with a non-empty question called setup_agent once and ran
\* the agent exactly when one was built; the agent run is the one this
\* render built, and no agent is run twice over all renders.
C8_OneFreshAgentPerRender ==
    /\ calls.connect <= 1 /\ calls.setup <= 1 /\ calls.run <= 1
    /\ Finished => calls.setup = 1 /\ (calls.run = 1 <=> agent # 0)
    /\ agent # 0 => agent = agentsBuilt
    /\ calls.run = 1 => runLog[Len(runLog)] = <<agent, user_query>>
    /\ \A i, j \in DOMAIN runLog : i # j => runLog[i][1] # runLog[j][1]

C8_Witness == pc = "done" /\ Len(runLog) = 2 /\ calls.run = 1

\* C9: a render that ends with a non-empty question shows either the
\* success indicator with the answer and no query error, or a query error
\* with neither success indicator nor answer.
C9_ExactlyOneOutcome ==
    Finished =>
        \/ Successes # {} /\ Answers # {} /\ QueryErrors = {}
        \/ Successes = {} /\ Answers = {} /\ QueryErrors # {}

====
